---------------------------- MODULE Spec2Model ----------------------------
(***************************************************************************)
(* A model of PyInstaller/loader/pyimod02_archive.py: the lazily reopened  *)
(* file handle ArchiveFile, the base container Archive and the compressed  *)
(* container ZlibArchive.                                                  *)
(*                                                                         *)
(* Files are sequences of bytes (0..255).  Python values are tagged        *)
(* records [t |-> type, v |-> value]; text (str) is a sequence of code     *)
(* points.  The library functions the module calls (struct, marshal, zlib, *)
(* os.path) are operators computing real encodings, so that what is        *)
(* written and what is read back meet only through the bytes of the file.  *)
(***************************************************************************)
EXTENDS Integers, Sequences, FiniteSets, TLC

(***************************************************************************)
(* Bounds of the model.                                                    *)
(***************************************************************************)
\* longest logical TOC handed to build
MaxEntries == 2
\* length of the foreign bytes in front of an embedded archive, and the
\* non-zero archive start readers and builders may ask for
PadLen == 3
\* the caller adds entries by hand to an open archive no longer than this
MaxDirect == 20
\* the most bytes one read on a handle asks for
MaxRead == 2

(***************************************************************************)
(* Text and bytes.                                                         *)
(***************************************************************************)
None == [t |-> "None"]

Ord ==
  [c \in {"a", "b", "c", "i", "m", "n", "o", "p", "t", "x", "y", "z",
          "_", ".", "/", "?", "0", "9", "+", "-"} |->
     CASE c = "a" -> 97  [] c = "b" -> 98  [] c = "c" -> 99  [] c = "i" -> 105
       [] c = "m" -> 109 [] c = "n" -> 110 [] c = "o" -> 111 [] c = "p" -> 112
       [] c = "t" -> 116 [] c = "x" -> 120 [] c = "y" -> 121 [] c = "z" -> 122
       [] c = "_" -> 95  [] c = "." -> 46  [] c = "/" -> 47  [] c = "?" -> 63
       [] c = "0" -> 48  [] c = "9" -> 57  [] c = "+" -> 43  [] c = "-" -> 45]

\* a str literal: the code points of a sequence of characters
Str(cs) == [i \in DOMAIN cs |-> Ord[cs[i]]]

Zeros(n) == [i \in 1..n |-> 0]

\* F applied to the value of e, which is computed once
With(e, F(_)) == F(e)

Min(a, b) == IF a < b THEN a ELSE b

\* b without its first n elements
Drop(b, n) == IF n >= Len(b) THEN <<>> ELSE SubSeq(b, n + 1, Len(b))

\* file.read(n) at cursor cur (0-based): at most n bytes, fewer at EOF
ReadAt(f, cur, n) ==
  IF cur >= Len(f) THEN <<>> ELSE SubSeq(f, cur + 1, Min(cur + n, Len(f)))

\* file.read() at cursor cur: everything up to EOF
ReadAll(f, cur) == IF cur >= Len(f) THEN <<>> ELSE SubSeq(f, cur + 1, Len(f))

\* file.write(b) at cursor cur: overwrites, extends, zero-fills a gap
WriteAt(f, cur, b) ==
  With(IF cur > Len(f) THEN f \o Zeros(cur - Len(f)) ELSE f, LAMBDA g :
    SubSeq(g, 1, cur) \o b \o Drop(g, cur + Len(b)))

(***************************************************************************)
(* struct.pack / struct.unpack with formats '!i' and '!B'.                 *)
(***************************************************************************)
\* struct.pack('!i', n): 4 bytes, big-endian, two's complement
PackI(n) ==
  << (n \div 16777216) % 256, (n \div 65536) % 256, (n \div 256) % 256, n % 256 >>

\* struct.unpack('!i', b): struct.error unless exactly 4 bytes
UnpackI(b) ==
  IF Len(b) # 4 THEN [exc |-> "struct.error", val |-> 0]
  ELSE [exc |-> "ok",
        val |-> (((IF b[1] >= 128 THEN b[1] - 256 ELSE b[1]) * 256 + b[2]) * 256 + b[3])
                  * 256 + b[4]]

\* struct.pack('!B', n)
PackB(n) == << n % 256 >>

\* struct.unpack('!B', b): struct.error unless exactly 1 byte
UnpackB(b) ==
  IF Len(b) # 1 THEN [exc |-> "struct.error", val |-> 0]
  ELSE [exc |-> "ok", val |-> b[1]]

(***************************************************************************)
(* marshal.  One type code per value, lengths and ints as 4 bytes little   *)
(* endian, a dict as '{' key value ... '0'.  The type codes modelled are   *)
(* the ones the archive uses; every other first byte is an unknown type    *)
(* code.  loads reads one value and ignores what follows it.               *)
(***************************************************************************)
TYPE_NULL    == 48
TYPE_NONE    == 78
TYPE_FALSE   == 70
TYPE_TRUE    == 84
TYPE_INT     == 105
TYPE_STRING  == 115
TYPE_UNICODE == 117
TYPE_TUPLE   == 40
TYPE_DICT    == 123

\* 4 bytes, little endian, two's complement
LE32(n) ==
  << n % 256, (n \div 256) % 256, (n \div 65536) % 256, (n \div 16777216) % 256 >>

UnLE32(b) ==
  (((IF b[4] >= 128 THEN b[4] - 256 ELSE b[4]) * 256 + b[3]) * 256 + b[2]) * 256 + b[1]

\* x comes before y in the order a dict's keys are written in
KeyBefore(x, y) ==
  \/ Len(x.v) < Len(y.v)
  \/ /\ Len(x.v) = Len(y.v)
     /\ \A i \in 1..Len(x.v) : (\A j \in 1..(i - 1) : x.v[j] = y.v[j]) => x.v[i] <= y.v[i]

RECURSIVE KeySeq(_)
KeySeq(S) ==
  IF S = {} THEN <<>>
  ELSE With(CHOOSE x \in S : \A y \in S : KeyBefore(x, y),
            LAMBDA k : <<k>> \o KeySeq(S \ {k}))

RECURSIVE MarshalDumps(_), DumpItems(_), DumpPairs(_, _)
\* marshal.dumps(v)
MarshalDumps(v) ==
  CASE v.t = "None"  -> <<TYPE_NONE>>
    [] v.t = "bool"  -> IF v.v THEN <<TYPE_TRUE>> ELSE <<TYPE_FALSE>>
    [] v.t = "int"   -> <<TYPE_INT>> \o LE32(v.v)
    [] v.t = "bytes" -> <<TYPE_STRING>> \o LE32(Len(v.v)) \o v.v
    [] v.t = "str"   -> <<TYPE_UNICODE>> \o LE32(Len(v.v)) \o v.v
    [] v.t = "tuple" -> <<TYPE_TUPLE>> \o LE32(Len(v.v)) \o DumpItems(v.v)
    [] v.t = "dict"  -> <<TYPE_DICT>> \o DumpPairs(v.v, KeySeq(DOMAIN v.v)) \o <<TYPE_NULL>>

DumpItems(s) == IF s = <<>> THEN <<>> ELSE MarshalDumps(Head(s)) \o DumpItems(Tail(s))

DumpPairs(d, ks) ==
  IF ks = <<>> THEN <<>>
  ELSE MarshalDumps(Head(ks)) \o MarshalDumps(d[Head(ks)]) \o DumpPairs(d, Tail(ks))

Raise(e, rest) == [exc |-> e, val |-> None, rest |-> rest]
Got(v, rest)   == [exc |-> "ok", val |-> v, rest |-> rest]

RECURSIVE r_object(_), r_items(_, _, _), r_dict(_, _)
\* marshal's reader: one value from the front of b, and the bytes after it
r_object(b) ==
  IF b = <<>> THEN Raise("EOFError", b)
  ELSE With(b[1], LAMBDA c : With(Tail(b), LAMBDA body :
    CASE c = TYPE_NONE  -> Got(None, body)
      [] c = TYPE_TRUE  -> Got([t |-> "bool", v |-> TRUE], body)
      [] c = TYPE_FALSE -> Got([t |-> "bool", v |-> FALSE], body)
      [] c = TYPE_NULL  -> Raise("TypeError", body)
      [] c = TYPE_INT   ->
           IF Len(body) < 4 THEN Raise("EOFError", body)
           ELSE Got([t |-> "int", v |-> UnLE32(body)], Drop(body, 4))
      [] c \in {TYPE_STRING, TYPE_UNICODE} ->
           IF Len(body) < 4 THEN Raise("EOFError", body)
           ELSE With(UnLE32(body), LAMBDA n :
             IF n < 0 THEN Raise("ValueError", body)
             ELSE IF Len(body) - 4 < n THEN Raise("EOFError", body)
             ELSE Got([t |-> IF c = TYPE_STRING THEN "bytes" ELSE "str",
                       v |-> SubSeq(body, 5, 4 + n)], Drop(body, 4 + n)))
      [] c = TYPE_TUPLE ->
           IF Len(body) < 4 THEN Raise("EOFError", body)
           ELSE With(UnLE32(body), LAMBDA n :
             IF n < 0 THEN Raise("ValueError", body)
             ELSE r_items(Drop(body, 4), n, <<>>))
      [] c = TYPE_DICT  -> r_dict(body, <<>>)
      [] OTHER -> Raise("ValueError", body)))

r_items(b, n, acc) ==
  IF n = 0 THEN Got([t |-> "tuple", v |-> acc], b)
  ELSE With(r_object(b), LAMBDA x :
         IF x.exc # "ok" THEN x ELSE r_items(x.rest, n - 1, Append(acc, x.val)))

r_dict(b, acc) ==
  IF b = <<>> THEN Raise("EOFError", b)
  ELSE IF b[1] = TYPE_NULL THEN Got([t |-> "dict", v |-> acc], Tail(b))
  ELSE With(r_object(b), LAMBDA k :
         IF k.exc # "ok" THEN k
         ELSE With(r_object(k.rest), LAMBDA x :
                IF x.exc # "ok" THEN x
                ELSE IF k.val.t = "dict" THEN Raise("TypeError", x.rest)
                ELSE r_dict(x.rest, [y \in (DOMAIN acc) \cup {k.val} |->
                                        IF y = k.val THEN x.val ELSE acc[y]])))

\* marshal.loads(b)
MarshalLoads(b) == With(r_object(b), LAMBDA x : [exc |-> x.exc, val |-> x.val])

(***************************************************************************)
(* zlib.  A stream is the 2-byte header of the default level, one final    *)
(* stored deflate block (01, LEN, NLEN, the data) and the Adler-32 of the  *)
(* data, big endian.  decompress checks all of it and ignores bytes after  *)
(* the end of the stream.                                                  *)
(***************************************************************************)
ZLIB_HEADER == <<120, 156>>

RECURSIVE AdlerA(_), AdlerB(_)
AdlerA(d) == IF d = <<>> THEN 1 ELSE (AdlerA(SubSeq(d, 1, Len(d) - 1)) + d[Len(d)]) % 65521
AdlerB(d) == IF d = <<>> THEN 0 ELSE (AdlerB(SubSeq(d, 1, Len(d) - 1)) + AdlerA(d)) % 65521

Adler32(d) ==
  With(AdlerA(d), LAMBDA a : With(AdlerB(d), LAMBDA b :
    << b \div 256, b % 256, a \div 256, a % 256 >>))

\* zlib.compress(d, COMPRESSION_LEVEL)
ZlibCompress(d) ==
  ZLIB_HEADER \o <<1, Len(d) % 256, Len(d) \div 256,
                   255 - (Len(d) % 256), 255 - (Len(d) \div 256)>> \o d \o Adler32(d)

\* zlib.decompress(b): zlib.error on anything that is not a whole stream
ZlibError == [exc |-> "zlib.error", val |-> <<>>]

ZlibDecompress(b) ==
  IF Len(b) < 7 THEN ZlibError
  ELSE IF (b[1] % 16 # 8) \/ ((b[1] * 256 + b[2]) % 31 # 0) \/ (b[3] # 1) THEN ZlibError
  ELSE IF (b[6] # 255 - b[4]) \/ (b[7] # 255 - b[5]) THEN ZlibError
  ELSE With(b[4] + 256 * b[5], LAMBDA n :
    IF Len(b) < 7 + n + 4 THEN ZlibError
    ELSE With(SubSeq(b, 8, 7 + n), LAMBDA d :
      IF SubSeq(b, 8 + n, 11 + n) # Adler32(d) THEN ZlibError
      ELSE [exc |-> "ok", val |-> d]))

(***************************************************************************)
(* The cipher (pyimod05_crypto.PyiBlockCipher, or the one the caller       *)
(* passes): encrypt puts an initialisation byte in front of the data and   *)
(* shifts every byte by a key stream; decrypt takes both off again.        *)
(***************************************************************************)
CIPHER_IV  == 165
CIPHER_KEY == 77

CipherEncrypt(b) ==
  <<CIPHER_IV>> \o [i \in 1..Len(b) |-> (b[i] + CIPHER_KEY + CIPHER_IV + i) % 256]

CipherDecrypt(b) ==
  IF b = <<>> THEN <<>>
  ELSE [i \in 1..(Len(b) - 1) |-> (b[i + 1] + 1024 - CIPHER_KEY - b[1] - i) % 256]

(***************************************************************************)
(* os.path.basename and os.path.splitext (posix).                          *)
(***************************************************************************)
\* index of the last occurrence of character code c in p, 0 if none
LastIndex(p, c) ==
  With({i \in 1..Len(p) : p[i] = c}, LAMBDA I :
    IF I = {} THEN 0 ELSE CHOOSE i \in I : \A j \in I : j <= i)

Basename(p) == Drop(p, LastIndex(p, Ord["/"]))

\* (root, ext): ext starts at the last dot of the last component, unless
\* that component has only dots in front of it
Splitext(p) ==
  With(LastIndex(p, Ord["/"]), LAMBDA sep : With(LastIndex(p, Ord["."]), LAMBDA dot :
    IF dot > sep /\ (\E i \in (sep + 1)..(dot - 1) : p[i] # Ord["."])
    THEN <<SubSeq(p, 1, dot - 1), Drop(p, dot - 1)>>
    ELSE <<p, <<>> >>))

(***************************************************************************)
(* The state.                                                              *)
(***************************************************************************)
VARIABLES
  self,      \* the attributes of each archive object
  bound,     \* the objects whose constructor has returned to the caller
  frame,     \* per object, where a running build() call is: pc, todo, toc_pos
  disk,      \* the files, by path
  ret,       \* what the last finished call returned or raised
  hist,      \* per object, its phase of life and the entries added to it
  damaged    \* whether a finished file has been damaged after it was written

vars == <<self, bound, frame, disk, ret, hist, damaged>>

\* the object that builds and the object that reads
Inst    == {"w", "r"}
Writers == {"w"}
Readers == {"r"}

PyBool(b)  == [t |-> "bool", v |-> b]
PyInt(n)   == [t |-> "int", v |-> n]
PyBytes(b) == [t |-> "bytes", v |-> b]
PyStr(v)   == [t |-> "str", v |-> v]
PyTuple(s) == [t |-> "tuple", v |-> s]
PyDict(f)  == [t |-> "dict", v |-> f]
EmptyDict == PyDict(<<>>)

\* the file the archive is built into, and a file that holds a copy of it
\* behind PadLen foreign bytes
ArchivePath == Str(<<"a", ".", "p", "y", "z">>)
ExePath     == Str(<<"x">>)
Paths       == {ArchivePath, ExePath}

\* Archive.MAGIC, ZlibArchive.MAGIC
Archive_MAGIC     == <<80, 89, 76, 0>>
ZlibArchive_MAGIC == <<80, 89, 90, 0>>
MAGIC(cls) == IF cls = "ZlibArchive" THEN ZlibArchive_MAGIC ELSE Archive_MAGIC

\* Archive.HDRLEN, ZlibArchive.HDRLEN, TOCPOS
Archive_HDRLEN     == 12
ZlibArchive_HDRLEN == Archive_HDRLEN + 5
HDRLEN(cls) == IF cls = "ZlibArchive" THEN ZlibArchive_HDRLEN ELSE Archive_HDRLEN
TOCPOS == 8

\* self.pymagic: the running interpreter's magic number
pymagic == <<238, 12, 13, 10>>

(***************************************************************************)
(* The inputs: names, source files, code objects.                          *)
(***************************************************************************)
NameA == Str(<<"a">>)
NameB == Str(<<"b">>)
Names == {NameA, NameB}

PthInit == Str(<<"p", "/", "_", "_", "i", "n", "i", "t", "_", "_", ".", "p", "y", "c">>)
PthMod  == Str(<<"m", ".", "p", "y", "o">>)
PthTxt  == Str(<<"m", ".", "t", "x", "t">>)

\* the code object each source file holds
SrcObj(pth) ==
  CASE pth = PthInit -> PyBytes(<<10, 11>>)
    [] pth = PthMod  -> PyBytes(<<20>>)
    [] OTHER         -> PyBytes(<<30>>)

\* a precompiled file: magic, timestamp, the marshalled code object
PycFile(pth) == pymagic \o <<1, 2, 3, 4>> \o MarshalDumps(SrcObj(pth))

\* the logical TOC entries (name, path) a caller hands to add and build
Entries == { <<NameA, PthInit>>, <<NameA, PthMod>>, <<NameB, PthTxt>> }

RECURSIVE SeqsUpTo(_, _)
SeqsUpTo(S, n) ==
  IF n = 0 THEN { <<>> }
  ELSE With(SeqsUpTo(S, n - 1), LAMBDA T :
         T \cup { Append(t, e) : t \in {x \in T : Len(x) = n - 1}, e \in S })

LogicalTocs == SeqsUpTo(Entries, MaxEntries)

\* code_dict arguments: the module graph's code objects, or the default {}
FullCodeDict ==
  PyDict([k \in {PyStr(NameA), PyStr(NameB)} |->
          IF k.v = NameA THEN PyBytes(<<40, 41>>) ELSE PyBytes(<<50>>)])
CodeDicts == {FullCodeDict, EmptyDict}

\* cipher arguments: none, or the caller's cipher object
Ciphers == {"None", "cipher"}
Starts  == {0, PadLen}

(***************************************************************************)
(* ArchiveFile.                                                            *)
(***************************************************************************)
NoLib == [has |-> FALSE, path |-> <<>>, mode |-> "", pos |-> 0, fd |-> FALSE, cur |-> 0]

\* ArchiveFile.__open: open the OS file and seek to pos, if not open
ArchiveFile_open(l, d) ==
  IF l.fd THEN [exc |-> "ok", lib |-> l, disk |-> d]
  ELSE IF l.mode = "rb"
    THEN IF d[l.path].there
         THEN [exc |-> "ok", lib |-> [l EXCEPT !.fd = TRUE, !.cur = l.pos], disk |-> d]
         ELSE [exc |-> "IOError", lib |-> l, disk |-> d]
    ELSE [exc |-> "ok", lib |-> [l EXCEPT !.fd = TRUE, !.cur = l.pos],
          disk |-> [d EXCEPT ![l.path] = [there |-> TRUE, bytes |-> <<>>]]]

\* ArchiveFile.__init__
ArchiveFile_init(path, mode, d) ==
  ArchiveFile_open([has |-> TRUE, path |-> path, mode |-> mode, pos |-> 0,
                    fd |-> FALSE, cur |-> 0], d)

\* ArchiveFile.close without the assignment to self.pos
ArchiveFile_close_PosKept(l) ==
  IF l.fd THEN [l EXCEPT !.fd = FALSE, !.cur = 0] ELSE l

\* ArchiveFile.close: record the cursor and close, if open
ArchiveFile_close(l) ==
  IF l.fd THEN [l EXCEPT !.pos = l.cur, !.fd = FALSE, !.cur = 0] ELSE l

\* ArchiveFile.__enter__
ArchiveFile_enter(l, d) == ArchiveFile_open(l, d)

\* ArchiveFile.__exit__
ArchiveFile_exit(l) ==
  IF l.fd THEN [exc |-> "ok", lib |-> ArchiveFile_close(l)]
  ELSE [exc |-> "AssertionError", lib |-> l]

\* ArchiveFile.__getattr__(name) and the call of the file method it
\* returns, on the file's bytes f: read(arg), seek(arg), tell()
ArchiveFile_getattr(l, f, name, arg) ==
  IF ~l.fd THEN [exc |-> "AssertionError", val |-> None, lib |-> l]
  ELSE CASE name = "read" ->
              IF l.mode # "rb" THEN [exc |-> "UnsupportedOperation", val |-> None, lib |-> l]
              ELSE [exc |-> "ok", val |-> [t |-> "bytes", v |-> ReadAt(f, l.cur, arg)],
                    lib |-> [l EXCEPT !.cur = @ + Len(ReadAt(f, l.cur, arg))]]
         [] name = "seek" ->
              [exc |-> "ok", val |-> [t |-> "int", v |-> arg], lib |-> [l EXCEPT !.cur = arg]]
         [] name = "tell" ->
              [exc |-> "ok", val |-> [t |-> "int", v |-> l.cur], lib |-> l]

(***************************************************************************)
(* Archive and ZlibArchive: reading.                                       *)
(***************************************************************************)
NoObject ==
  [cls |-> "", toc |-> None, path |-> None, start |-> 0, lib |-> NoLib,
   crypted |-> 0, cipher |-> "None", code_dict |-> EmptyDict]

Cur(o, c) == [o EXCEPT !.lib.cur = c]

Outcome(e, o) == [exc |-> e, o |-> o]

\* Archive.checkmagic without the comparison of the magic
Archive_checkmagic_AnyMagic(o, f) ==
  With(ReadAt(f, o.start, Len(MAGIC(o.cls))), LAMBDA m :
    With(ReadAt(f, o.start + Len(m), Len(pymagic)), LAMBDA v :
      IF v # pymagic
      THEN Outcome("ArchiveReadError", Cur(o, o.start + Len(m) + Len(v)))
      ELSE Outcome("ok", Cur(o, o.start + Len(m) + Len(v)
                                + Len(ReadAt(f, o.start + Len(m) + Len(v), 4))))))

\* Archive.checkmagic, on the open file with bytes f
Archive_checkmagic(o, f) ==
  With(ReadAt(f, o.start, Len(MAGIC(o.cls))), LAMBDA m :
    IF m # MAGIC(o.cls) THEN Outcome("ArchiveReadError", Cur(o, o.start + Len(m)))
    ELSE With(ReadAt(f, o.start + Len(m), Len(pymagic)), LAMBDA v :
      IF v # pymagic
      THEN Outcome("ArchiveReadError", Cur(o, o.start + Len(m) + Len(v)))
      ELSE Outcome("ok", Cur(o, o.start + Len(m) + Len(v)
                                + Len(ReadAt(f, o.start + Len(m) + Len(v), 4))))))

\* ZlibArchive.checkmagic
ZlibArchive_checkmagic(o, f) ==
  With(Archive_checkmagic(o, f), LAMBDA b :
    IF b.exc # "ok" THEN b
    ELSE With(ReadAt(f, b.o.lib.cur, 1), LAMBDA x :
      With(UnpackB(x), LAMBDA u :
        IF u.exc # "ok" THEN Outcome(u.exc, Cur(b.o, b.o.lib.cur + Len(x)))
        ELSE Outcome("ok", [b.o EXCEPT !.lib.cur = @ + Len(x),
                                       !.crypted = u.val,
                                       !.cipher = IF u.val # 0 THEN "PyiBlockCipher"
                                                  ELSE @]))))

checkmagic(o, f) ==
  IF o.cls = "ZlibArchive" THEN ZlibArchive_checkmagic(o, f) ELSE Archive_checkmagic(o, f)

\* Archive.loadtoc
loadtoc(o, f) ==
  With(ReadAt(f, o.start + TOCPOS, 4), LAMBDA x :
    With(UnpackI(x), LAMBDA u :
      IF u.exc # "ok" THEN Outcome(u.exc, Cur(o, o.start + TOCPOS + Len(x)))
      ELSE IF o.start + u.val < 0 THEN Outcome("IOError", Cur(o, o.start + TOCPOS + Len(x)))
      ELSE With(ReadAll(f, o.start + u.val), LAMBDA b :
        With(MarshalLoads(b), LAMBDA t :
          IF t.exc # "ok" THEN Outcome(t.exc, Cur(o, o.start + u.val + Len(b)))
          ELSE Outcome("ok", [o EXCEPT !.lib.cur = o.start + u.val + Len(b),
                                       !.toc = t.val])))))

\* "with self.lib:" around checkmagic and loadtoc; f is the file's bytes
CheckAndLoad(o, f) ==
  With(checkmagic(o, f), LAMBDA m :
    With(IF m.exc = "ok" THEN loadtoc(m.o, f) ELSE m, LAMBDA t :
      With(ArchiveFile_exit(t.o.lib), LAMBDA x :
        Outcome(IF t.exc # "ok" THEN t.exc ELSE x.exc, [t.o EXCEPT !.lib = x.lib]))))

InitOutcome(e, o, d) == [exc |-> e, o |-> o, disk |-> d]

\* Archive.__init__(path, start) of an object of class cls
Archive_init(cls, path, start, o0, d) ==
  With([o0 EXCEPT !.cls = cls, !.toc = None, !.path = path, !.start = start], LAMBDA o :
    IF path = None THEN InitOutcome("ok", o, d)
    ELSE With(ArchiveFile_init(path.v, "rb", d), LAMBDA a :
      IF a.exc # "ok" THEN InitOutcome(a.exc, o, d)
      ELSE With(CheckAndLoad([o EXCEPT !.lib = a.lib], d[path.v].bytes), LAMBDA r :
        InitOutcome(r.exc, r.o, d))))

\* ZlibArchive.__init__(path, offset, code_dict, cipher), offset given
ZlibArchive_init(path, offset, code_dict, cipher, d) ==
  With(Archive_init("ZlibArchive", path, IF path = None THEN 0 ELSE offset,
                    [NoObject EXCEPT !.code_dict = code_dict], d), LAMBDA a :
    IF a.exc # "ok" THEN a
    ELSE IF cipher # "None"
    THEN [a EXCEPT !.o.crypted = 1, !.o.cipher = cipher]
    ELSE [a EXCEPT !.o.crypted = 0])

\* int(text) of a text of digits, signs and other characters: an optional
\* sign and at least one digit, base 10
RECURSIVE DigitsValue(_)
DigitsValue(ds) ==
  IF ds = <<>> THEN 0
  ELSE DigitsValue(SubSeq(ds, 1, Len(ds) - 1)) * 10 + (ds[Len(ds)] - Ord["0"])

IntOfText(s) ==
  With(IF s # <<>> /\ s[1] \in {Ord["+"], Ord["-"]} THEN Tail(s) ELSE s, LAMBDA ds :
    IF ds = <<>> \/ (\E k \in DOMAIN ds : ds[k] \notin Ord["0"]..Ord["9"])
    THEN [exc |-> "ValueError", val |-> 0]
    ELSE [exc |-> "ok",
          val |-> IF s[1] = Ord["-"] THEN 0 - DigitsValue(ds) ELSE DigitsValue(ds)])

\* the loop of ZlibArchive.__init__ taking the '?' but not the integer off
\* the path
RECURSIVE ParsePathSuffix_KeepMark(_, _)
ParsePathSuffix_KeepMark(path, i) ==
  IF i < 0 THEN [path |-> path, offset |-> 0]
  ELSE IF path[i + 1] = Ord["?"] /\ IntOfText(Drop(path, i + 1)).exc = "ok"
  THEN [path |-> SubSeq(path, 1, i + 1), offset |-> IntOfText(Drop(path, i + 1)).val]
  ELSE ParsePathSuffix_KeepMark(path, i - 1)

\* the loop of ZlibArchive.__init__ over i, i - 1, ..., 0 and its else
\* clause: the path and the offset it leaves
RECURSIVE ParsePathSuffix(_, _)
ParsePathSuffix(path, i) ==
  IF i < 0 THEN [path |-> path, offset |-> 0]
  ELSE IF path[i + 1] = Ord["?"] /\ IntOfText(Drop(path, i + 1)).exc = "ok"
  THEN [path |-> SubSeq(path, 1, i), offset |-> IntOfText(Drop(path, i + 1)).val]
  ELSE ParsePathSuffix(path, i - 1)

\* ZlibArchive.__init__(path, None, code_dict, cipher), path a str
ZlibArchive_init_path(path, code_dict, cipher, d) ==
  With(ParsePathSuffix(path, Len(path) - 1), LAMBDA s :
    ZlibArchive_init(PyStr(s.path), s.offset, code_dict, cipher, d))

(***************************************************************************)
(* Python's handling of the values a TOC can hold.                         *)
(***************************************************************************)
\* toc[name] in place of toc.get(name, default)
TocSubscript(toc, name, default) ==
  IF toc.t # "dict" THEN [exc |-> "TypeError", val |-> None]
  ELSE IF PyStr(name) \in DOMAIN toc.v THEN [exc |-> "ok", val |-> toc.v[PyStr(name)]]
  ELSE [exc |-> "KeyError", val |-> None]

\* toc.get(name, default); only a dict has get
TocGet(toc, name, default) ==
  IF toc.t # "dict" THEN [exc |-> "AttributeError", val |-> None]
  ELSE [exc |-> "ok",
        val |-> IF PyStr(name) \in DOMAIN toc.v THEN toc.v[PyStr(name)] ELSE default]

\* the items of a value that can be unpacked
Items(v) ==
  CASE v.t = "tuple" -> v.v
    [] v.t = "bytes" -> [i \in DOMAIN v.v |-> PyInt(v.v[i])]
    [] v.t = "str"   -> [i \in DOMAIN v.v |-> PyStr(<<v.v[i]>>)]
    [] OTHER -> <<>>

\* a, b, ... = v with n targets (a dict is not unpacked by the model)
Unpack(v, n) ==
  IF v.t \notin {"tuple", "bytes", "str"} THEN [exc |-> "TypeError", items |-> <<>>]
  ELSE IF Len(Items(v)) # n THEN [exc |-> "ValueError", items |-> <<>>]
  ELSE [exc |-> "ok", items |-> Items(v)]

\* v used as an integer
IntOf(v) ==
  CASE v.t = "int"  -> [exc |-> "ok", val |-> v.v]
    [] v.t = "bool" -> [exc |-> "ok", val |-> IF v.v THEN 1 ELSE 0]
    [] OTHER -> [exc |-> "TypeError", val |-> 0]

\* toc[k] = x
DictSet(dv, k, x) ==
  PyDict([y \in (DOMAIN dv.v) \cup {k} |-> IF y = k THEN x ELSE dv.v[y]])

Result(e, v, o, d) == [exc |-> e, val |-> v, o |-> o, disk |-> d]

(***************************************************************************)
(* extract.                                                                *)
(***************************************************************************)
Fetched(e, b, o, d) == [exc |-> e, bytes |-> b, o |-> o, disk |-> d]

\* self.lib.seek(self.start + pos); self.lib.read(n.val), all of the rest
\* when n.val < 0; n is [exc, val]
SeekRead(o, f, pos, n) ==
  With(IntOf(pos), LAMBDA p :
    IF p.exc # "ok" THEN Fetched(p.exc, <<>>, o, <<>>)
    ELSE IF o.start + p.val < 0 THEN Fetched("IOError", <<>>, o, <<>>)
    ELSE IF n.exc # "ok" THEN Fetched(n.exc, <<>>, Cur(o, o.start + p.val), <<>>)
    ELSE IF o.lib.mode # "rb"
    THEN Fetched("UnsupportedOperation", <<>>, Cur(o, o.start + p.val), <<>>)
    ELSE With(IF n.val < 0 THEN ReadAll(f, o.start + p.val)
              ELSE ReadAt(f, o.start + p.val, n.val), LAMBDA b :
      Fetched("ok", b, Cur(o, o.start + p.val + Len(b)), <<>>)))

\* __exit__ after the body: the body's exception, else __exit__'s
Leave(body, d) ==
  With(ArchiveFile_exit(body.o.lib), LAMBDA x :
    Fetched(IF body.exc # "ok" THEN body.exc ELSE x.exc, body.bytes,
            [body.o EXCEPT !.lib = x.lib], d))

\* "with self.lib:" and its body in extract
Fetch(o, d, pos, n) ==
  IF ~o.lib.has THEN Fetched("AttributeError", <<>>, o, d)
  ELSE With(ArchiveFile_enter(o.lib, d), LAMBDA a :
    IF a.exc # "ok" THEN Fetched(a.exc, <<>>, o, d)
    ELSE Leave(SeekRead([o EXCEPT !.lib = a.lib], a.disk[o.lib.path].bytes, pos, n),
               a.disk))

ReadToEnd == [exc |-> "ok", val |-> -1]

\* Archive.extract(name)
Archive_extract(o, name, d) ==
  With(TocGet(o.toc, name, PyTuple(<<PyInt(0), None>>)), LAMBDA g :
    IF g.exc # "ok" THEN Result(g.exc, None, o, d)
    ELSE With(Unpack(g.val, 2), LAMBDA u :
      IF u.exc # "ok" THEN Result(u.exc, None, o, d)
      ELSE IF u.items[2] = None THEN Result("ok", None, o, d)
      ELSE With(Fetch(o, d, u.items[2], ReadToEnd), LAMBDA r :
        IF r.exc # "ok" THEN Result(r.exc, None, r.o, r.disk)
        ELSE With(MarshalLoads(r.bytes), LAMBDA m :
          IF m.exc # "ok" THEN Result(m.exc, None, r.o, r.disk)
          ELSE Result("ok", PyTuple(<<u.items[1], m.val>>), r.o, r.disk)))))

\* the except clause of ZlibArchive.extract
ExceptEOFError(exc) == IF exc = "EOFError" THEN "ImportError" ELSE exc

\* marshal.loads(zlib.decompress(obj))
LoadsDecompress(obj) ==
  With(ZlibDecompress(obj), LAMBDA z :
    IF z.exc # "ok" THEN [exc |-> z.exc, val |-> None] ELSE MarshalLoads(z.val))

\* ZlibArchive.extract(name)
ZlibArchive_extract(o, name, d) ==
  With(TocGet(o.toc, name, PyTuple(<<PyInt(0), None, PyInt(0)>>)), LAMBDA g :
    IF g.exc # "ok" THEN Result(g.exc, None, o, d)
    ELSE With(Unpack(g.val, 3), LAMBDA u :
      IF u.exc # "ok" THEN Result(u.exc, None, o, d)
      ELSE IF u.items[2] = None THEN Result("ok", None, o, d)
      ELSE With(Fetch(o, d, u.items[2],
                      IF u.items[3] = None THEN ReadToEnd ELSE IntOf(u.items[3])),
                LAMBDA r :
        IF r.exc # "ok" THEN Result(r.exc, None, r.o, r.disk)
        ELSE With(LoadsDecompress(IF o.crypted # 0 THEN CipherDecrypt(r.bytes)
                                  ELSE r.bytes), LAMBDA m :
          IF m.exc # "ok" THEN Result(ExceptEOFError(m.exc), None, r.o, r.disk)
          ELSE Result("ok", PyTuple(<<u.items[1], m.val>>), r.o, r.disk)))))

extract(o, name, d) ==
  IF o.cls = "ZlibArchive" THEN ZlibArchive_extract(o, name, d)
  ELSE Archive_extract(o, name, d)

(***************************************************************************)
(* add.                                                                    *)
(***************************************************************************)
INIT_NAME == Str(<<"_", "_", "i", "n", "i", "t", "_", "_">>)
EXT_PYC   == Str(<<".", "p", "y", "c">>)
EXT_PYO   == Str(<<".", "p", "y", "o">>)

\* self.lib.tell() and the assignment self.toc[nm] = ...: what they raise
TellAndSet(o) ==
  IF ~o.lib.has THEN "AttributeError"
  ELSE IF ~o.lib.fd THEN "AssertionError"
  ELSE IF o.toc.t # "dict" THEN "TypeError"
  ELSE "ok"

\* self.lib.write(b) at the cursor
LibWrite(o, d, b) ==
  [o |-> Cur(o, o.lib.cur + Len(b)),
   disk |-> [d EXCEPT ![o.lib.path].bytes = WriteAt(@, o.lib.cur, b)]]

Written(w) == Result("ok", None, w.o, w.disk)

\* Archive.add taking self.lib.tell() after the write
Archive_add_TellAfter(o, entry, d) ==
  With(Splitext(Basename(entry[2])), LAMBDA se :
    IF se[2] \notin {EXT_PYC, EXT_PYO} THEN Result("AssertionError", None, o, d)
    ELSE IF TellAndSet(o) # "ok" THEN Result(TellAndSet(o), None, o, d)
    ELSE Written(LibWrite(
           [o EXCEPT !.toc = DictSet(@, PyStr(entry[1]),
                        PyTuple(<<PyBool(se[1] = INIT_NAME),
                                  PyInt(o.lib.cur + Len(Drop(PycFile(entry[2]), 8)))>>))],
           d, Drop(PycFile(entry[2]), 8))))

\* Archive.add with the assertion on the extension moved behind the writes
Archive_add_AssertLast(o, entry, d) ==
  With(Splitext(Basename(entry[2])), LAMBDA se :
    IF TellAndSet(o) # "ok" THEN Result(TellAndSet(o), None, o, d)
    ELSE With(LibWrite(
           [o EXCEPT !.toc = DictSet(@, PyStr(entry[1]),
                        PyTuple(<<PyBool(se[1] = INIT_NAME), PyInt(o.lib.cur)>>))],
           d, Drop(PycFile(entry[2]), 8)), LAMBDA w :
      Result(IF se[2] \notin {EXT_PYC, EXT_PYO} THEN "AssertionError" ELSE "ok",
             None, w.o, w.disk)))

\* Archive.add(entry)
Archive_add(o, entry, d) ==
  With(Splitext(Basename(entry[2])), LAMBDA se :
    IF se[2] \notin {EXT_PYC, EXT_PYO} THEN Result("AssertionError", None, o, d)
    ELSE IF TellAndSet(o) # "ok" THEN Result(TellAndSet(o), None, o, d)
    ELSE Written(LibWrite(
           [o EXCEPT !.toc = DictSet(@, PyStr(entry[1]),
                        PyTuple(<<PyBool(se[1] = INIT_NAME), PyInt(o.lib.cur)>>))],
           d, Drop(PycFile(entry[2]), 8))))

\* ZlibArchive.add with the two steps exchanged: encrypt, then compress
ZlibArchive_add_EncryptFirst(o, entry, d) ==
  With(Splitext(Basename(entry[2])), LAMBDA se :
    IF PyStr(entry[1]) \notin DOMAIN o.code_dict.v THEN Result("KeyError", None, o, d)
    ELSE With(MarshalDumps(o.code_dict.v[PyStr(entry[1])]), LAMBDA z :
      With(ZlibCompress(IF o.crypted # 0 THEN CipherEncrypt(z) ELSE z), LAMBDA obj :
        IF TellAndSet(o) # "ok" THEN Result(TellAndSet(o), None, o, d)
        ELSE Written(LibWrite(
               [o EXCEPT !.toc = DictSet(@, PyStr(entry[1]),
                            PyTuple(<<PyBool(se[1] = INIT_NAME), PyInt(o.lib.cur),
                                      PyInt(Len(obj))>>))],
               d, obj)))))

\* ZlibArchive.add(entry)
ZlibArchive_add(o, entry, d) ==
  With(Splitext(Basename(entry[2])), LAMBDA se :
    IF PyStr(entry[1]) \notin DOMAIN o.code_dict.v THEN Result("KeyError", None, o, d)
    ELSE With(ZlibCompress(MarshalDumps(o.code_dict.v[PyStr(entry[1])])), LAMBDA z :
      With(IF o.crypted # 0 THEN CipherEncrypt(z) ELSE z, LAMBDA obj :
        IF TellAndSet(o) # "ok" THEN Result(TellAndSet(o), None, o, d)
        ELSE Written(LibWrite(
               [o EXCEPT !.toc = DictSet(@, PyStr(entry[1]),
                            PyTuple(<<PyBool(se[1] = INIT_NAME), PyInt(o.lib.cur),
                                      PyInt(Len(obj))>>))],
               d, obj)))))

add(o, entry, d) ==
  IF o.cls = "ZlibArchive" THEN ZlibArchive_add(o, entry, d) ELSE Archive_add(o, entry, d)

(***************************************************************************)
(* Building: _start_add_entries, save_toc, update_headers.                 *)
(***************************************************************************)
\* Archive._start_add_entries reserving the header's space with a header
\* that holds HDRLEN as the TOC position
start_add_entries_ValidHeader(o, path, d) ==
  IF o.path # None THEN Result("AssertionError", None, o, d)
  ELSE With(ArchiveFile_init(path, "wb", d), LAMBDA a :
    With(LibWrite([o EXCEPT !.path = PyStr(path), !.lib = a.lib], a.disk,
                  SubSeq(MAGIC(o.cls) \o pymagic \o PackI(HDRLEN(o.cls)) \o Zeros(5),
                         1, HDRLEN(o.cls))), LAMBDA w :
      Result("ok", None, [w.o EXCEPT !.toc = EmptyDict], w.disk)))

\* Archive._start_add_entries without its assertion
start_add_entries_Unguarded(o, path, d) ==
  With(ArchiveFile_init(path, "wb", d), LAMBDA a :
    With(LibWrite([o EXCEPT !.path = PyStr(path), !.lib = a.lib], a.disk,
                  Zeros(HDRLEN(o.cls))), LAMBDA w :
      Result("ok", None, [w.o EXCEPT !.toc = EmptyDict], w.disk)))

\* Archive._start_add_entries(path)
start_add_entries(o, path, d) ==
  IF o.path # None THEN Result("AssertionError", None, o, d)
  ELSE With(ArchiveFile_init(path, "wb", d), LAMBDA a :
    With(LibWrite([o EXCEPT !.path = PyStr(path), !.lib = a.lib], a.disk,
                  Zeros(HDRLEN(o.cls))), LAMBDA w :
      Result("ok", None, [w.o EXCEPT !.toc = EmptyDict], w.disk)))

\* Archive.save_toc(tocpos)
save_toc(o, d) == LibWrite(o, d, MarshalDumps(o.toc))

\* the writes of update_headers(tocpos), in order; the first follows
\* self.lib.seek(self.start)
Archive_update_headers(o, tocpos) == << MAGIC(o.cls), pymagic, PackI(tocpos) >>

ZlibArchive_update_headers(o, tocpos) ==
  Archive_update_headers(o, tocpos) \o << PackB(o.crypted) >>

update_headers(o, tocpos) ==
  IF o.cls = "ZlibArchive" THEN ZlibArchive_update_headers(o, tocpos)
  ELSE Archive_update_headers(o, tocpos)

(***************************************************************************)
(* The operations.                                                         *)
(***************************************************************************)
Idle == [pc |-> "idle", todo |-> <<>>, toc_pos |-> 0, k |-> 0]

NoHist == [phase |-> "none", added |-> <<>>]

Return(i, op, arg, exc, val) ==
  ret' = [i |-> i, op |-> op, arg |-> arg, exc |-> exc, val |-> val]

\* path arguments given without an offset: no '?', a '?' and the offset of
\* the embedded archive, a signed offset, a '?' followed by other text, by
\* an integer and more text, by nothing, and a '?' inside the file's name
SuffixPaths ==
  With(<<Ord["0"] + PadLen>>, LAMBDA n :
    { ArchivePath,
      ExePath \o Str(<<"?">>) \o n,
      ArchivePath \o Str(<<"?", "+", "0">>),
      ArchivePath \o Str(<<"?", "x">>),
      ExePath \o Str(<<"?">>) \o n \o Str(<<"?", "x">>),
      ExePath \o Str(<<"?">>),
      ExePath \o Str(<<"?", "x", "?">>) \o n })

\* the names a file is asked for by; only Paths are ever written
Files == Paths \cup { ParsePathSuffix(p, Len(p) - 1).path : p \in SuffixPaths }

Init ==
  /\ self = [i \in Inst |-> NoObject]
  /\ bound = [i \in Inst |-> FALSE]
  /\ frame = [i \in Inst |-> Idle]
  /\ disk = [p \in Files |-> [there |-> FALSE, bytes |-> <<>>]]
  /\ ret = [i |-> "", op |-> "", arg |-> None, exc |-> "", val |-> None]
  /\ hist = [i \in Inst |-> NoHist]
  /\ damaged = FALSE

\* the constructor's outcome: the caller holds the object only if it returned
Constructed(i, r) ==
  /\ self' = [self EXCEPT ![i] = r.o]
  /\ bound' = [bound EXCEPT ![i] = (r.exc = "ok")]
  /\ disk' = r.disk
  /\ Return(i, "__init__", r.o.path, r.exc, None)
  /\ hist' = [hist EXCEPT ![i] = [NoHist EXCEPT !.phase =
                IF r.exc # "ok" THEN "none"
                ELSE IF r.o.path = None THEN "empty" ELSE "read"]]
  /\ UNCHANGED <<frame, damaged>>

\* Archive(path, start)
ArchiveInit(i, path, start) ==
  /\ frame[i].pc = "idle"
  /\ path = None => ~bound[i]
  /\ \E r \in {Archive_init("Archive", path, start, NoObject, disk)} : Constructed(i, r)

\* ZlibArchive(path, offset, code_dict, cipher)
ZlibArchiveInit(i, path, offset, code_dict, cipher) ==
  /\ frame[i].pc = "idle"
  /\ path = None => ~bound[i]
  /\ \E r \in {ZlibArchive_init(path, offset, code_dict, cipher, disk)} : Constructed(i, r)

\* ZlibArchive(path, code_dict=..., cipher=...): no offset given
ZlibArchiveOpen(i, path, code_dict, cipher) ==
  /\ frame[i].pc = "idle"
  /\ \E r \in {ZlibArchive_init_path(path, code_dict, cipher, disk)} :
       /\ self' = [self EXCEPT ![i] = r.o]
       /\ bound' = [bound EXCEPT ![i] = (r.exc = "ok")]
       /\ disk' = r.disk
       /\ Return(i, "__init__", PyStr(path), r.exc, None)
       /\ hist' = [hist EXCEPT ![i] = [NoHist EXCEPT !.phase =
                     IF r.exc = "ok" THEN "read" ELSE "none"]]
  /\ UNCHANGED <<frame, damaged>>

\* self.extract(name)
Extract(i, name) ==
  /\ bound[i] /\ frame[i].pc = "idle"
  /\ \E r \in {extract(self[i], name, disk)} :
       /\ self' = [self EXCEPT ![i] = r.o]
       /\ disk' = r.disk
       /\ Return(i, "extract", PyStr(name), r.exc, r.val)
  /\ UNCHANGED <<bound, frame, hist, damaged>>

\* self.add(entry), called by the caller
Add(i, entry) ==
  /\ bound[i] /\ frame[i].pc = "idle"
  /\ self[i].lib.fd => Len(disk[self[i].lib.path].bytes) <= MaxDirect
  /\ \E r \in {add(self[i], entry, disk)} :
       /\ self' = [self EXCEPT ![i] = r.o]
       /\ disk' = r.disk
       /\ Return(i, "add", PyStr(entry[1]), r.exc, None)
       /\ hist' = IF r.exc = "ok" THEN [hist EXCEPT ![i].added = Append(@, entry)]
                  ELSE hist
  /\ UNCHANGED <<bound, frame, damaged>>

\* self.build(archive_path, logical_toc): _start_add_entries
Build(i, archive_path, logical_toc) ==
  /\ bound[i] /\ frame[i].pc = "idle"
  /\ \E r \in {start_add_entries(self[i], archive_path, disk)} :
       /\ self' = [self EXCEPT ![i] = r.o]
       /\ disk' = r.disk
       /\ IF r.exc = "ok"
          THEN /\ frame' = [frame EXCEPT ![i] = [Idle EXCEPT !.pc = "add",
                                                            !.todo = logical_toc]]
               /\ hist' = [hist EXCEPT ![i].phase = "building"]
               /\ UNCHANGED ret
          ELSE /\ Return(i, "build", PyStr(archive_path), r.exc, None)
               /\ UNCHANGED <<frame, hist>>
  /\ UNCHANGED <<bound, damaged>>

\* build: _add_from_table_of_contents adds the next entry; an exception
\* leaves build
BuildAdd(i) ==
  /\ frame[i].pc = "add" /\ frame[i].todo # <<>>
  /\ \E r \in {add(self[i], Head(frame[i].todo), disk)} :
       /\ self' = [self EXCEPT ![i] = r.o]
       /\ disk' = r.disk
       /\ IF r.exc = "ok"
          THEN /\ frame' = [frame EXCEPT ![i].todo = Tail(@)]
               /\ hist' = [hist EXCEPT ![i].added = Append(@, Head(frame[i].todo))]
               /\ UNCHANGED ret
          ELSE /\ frame' = [frame EXCEPT ![i] = Idle]
               /\ hist' = [hist EXCEPT ![i].phase = "aborted"]
               /\ Return(i, "build", self[i].path, r.exc, None)
  /\ UNCHANGED <<bound, damaged>>

\* build: _finalize takes toc_pos and saves the TOC
BuildSaveToc(i) ==
  /\ frame[i].pc = "add" /\ frame[i].todo = <<>>
  /\ \E w \in {save_toc(self[i], disk)} :
       /\ self' = [self EXCEPT ![i] = w.o]
       /\ disk' = w.disk
  /\ frame' = [frame EXCEPT ![i].pc = IF HDRLEN(self[i].cls) # 0 THEN "hdr" ELSE "close",
                            ![i].toc_pos = self[i].lib.cur]
  /\ UNCHANGED <<bound, ret, hist, damaged>>

\* build: update_headers makes its next write, the first after
\* self.lib.seek(self.start)
BuildHeader(i) ==
  /\ frame[i].pc = "hdr"
  /\ \E ws \in {update_headers(self[i], frame[i].toc_pos)} :
       /\ \E w \in {LibWrite(IF frame[i].k = 0 THEN Cur(self[i], self[i].start)
                             ELSE self[i], disk, ws[frame[i].k + 1])} :
            /\ self' = [self EXCEPT ![i] = w.o]
            /\ disk' = w.disk
       /\ frame' = [frame EXCEPT ![i].k = @ + 1,
                                 ![i].pc = IF frame[i].k + 1 = Len(ws) THEN "close"
                                           ELSE "hdr"]
  /\ UNCHANGED <<bound, ret, hist, damaged>>

\* build: _finalize closes the file and build returns
BuildClose(i) ==
  /\ frame[i].pc = "close"
  /\ self' = [self EXCEPT ![i].lib = ArchiveFile_close(@)]
  /\ frame' = [frame EXCEPT ![i] = Idle]
  /\ hist' = [hist EXCEPT ![i].phase = "finalized"]
  /\ Return(i, "build", self[i].path, "ok", None)
  /\ UNCHANGED <<bound, disk, damaged>>

(***************************************************************************)
(* The surroundings: the finished archive is appended to another file, or  *)
(* a finished file is damaged.                                             *)
(***************************************************************************)
InUse(p) == \E i \in Inst : self[i].lib.has /\ self[i].lib.fd /\ self[i].lib.path = p

Pad == [i \in 1..PadLen |-> 7]

Embed ==
  /\ disk[ArchivePath].there /\ ~InUse(ArchivePath)
  /\ disk' = [disk EXCEPT ![ExePath] =
                [there |-> TRUE, bytes |-> Pad \o disk[ArchivePath].bytes]]
  /\ UNCHANGED <<self, bound, frame, ret, hist, damaged>>

\* where damage hits: the magic, the TOC offset field, the start of an
\* entry the builder stored
DamagePoints ==
  {0, TOCPOS} \cup
  UNION { IF self[i].toc.t = "dict"
          THEN { self[i].toc.v[n].v[2].v : n \in DOMAIN self[i].toc.v }
          ELSE {} : i \in Writers }

\* what damage puts over the bytes at position k of file f: one changed
\* byte, a whole zlib stream of no data, a whole zlib stream of a byte
\* that is no marshal type code
Damage(kind, f, k) ==
  CASE kind = "flip"  -> << (f[k + 1] + 1) % 256 >>
    [] kind = "empty" -> ZlibCompress(<<>>)
    [] kind = "junk"  -> ZlibCompress(<<0>>)

\* a header field has one byte changed; an entry also may be replaced
DamageKinds(k) == IF k \in {0, TOCPOS} THEN {"flip"} ELSE {"flip", "empty", "junk"}

Corrupt(p, k, kind) ==
  /\ ~damaged /\ disk[p].there /\ ~InUse(p)
  /\ k < Len(disk[p].bytes)
  /\ disk' = [disk EXCEPT ![p].bytes = WriteAt(@, k, Damage(kind, @, k))]
  /\ damaged' = TRUE
  /\ UNCHANGED <<self, bound, frame, ret, hist>>

(***************************************************************************)
(* The specifications.                                                     *)
(***************************************************************************)
\* the lists given to build on instance i: _start_add_entries raises before
\* the list is looked at when the instance has a path, so one list stands
\* for all of them there
BuildLists(i) == IF self[i].path = None THEN LogicalTocs ELSE { <<>> }

\* the calls of the two callers
Calls ==
  \/ \E i \in Writers, s \in Starts : ArchiveInit(i, None, s)
  \/ \E i \in Readers, p \in Paths, s \in Starts : ArchiveInit(i, PyStr(p), s)
  \/ \E i \in Writers, c \in CodeDicts, x \in Ciphers : ZlibArchiveInit(i, None, 0, c, x)
  \/ \E i \in Readers, p \in Paths, s \in Starts, x \in Ciphers :
       ZlibArchiveInit(i, PyStr(p), s, EmptyDict, x)
  \/ \E i \in Readers, p \in SuffixPaths : ZlibArchiveOpen(i, p, EmptyDict, "None")
  \/ \E i \in Inst, n \in Names : Extract(i, n)
  \/ \E i \in Inst, e \in Entries : Add(i, e)
  \/ \E i \in Inst : \E t \in BuildLists(i) : Build(i, ArchivePath, t)
  \/ \E i \in Inst : BuildAdd(i)
  \/ \E i \in Inst : BuildSaveToc(i)
  \/ \E i \in Inst : BuildHeader(i)
  \/ \E i \in Inst : BuildClose(i)

\* a builder, a reader that may open the file at any moment of the build,
\* and the finished file appended to another
Next == Calls \/ Embed

Spec == Init /\ [][Next]_vars

\* a builder, damage to the file once it is closed, and a reader that
\* leaves a file alone while it is being written
Quiet == \A i \in Readers : self'[i] = self[i] \/ ~InUse(ArchivePath)

NextDamage ==
  \/ Calls /\ Quiet
  \/ \E k \in DamagePoints : \E kind \in DamageKinds(k) : Corrupt(ArchivePath, k, kind)

SpecDamage == Init /\ [][NextDamage]_vars

(***************************************************************************)
(* The file handle on its own: a caller constructs an ArchiveFile and      *)
(* reads, seeks, closes and enters and leaves scopes on it as it likes.    *)
(* The handle under test is the lib of object "r"; the lib of object "w"   *)
(* is a second handle on the same file that is given the same reads and    *)
(* seeks and is never closed.                                              *)
(***************************************************************************)
HandleFile == <<11, 12, 13, 14>>

InitHandle ==
  /\ self = [i \in Inst |-> NoObject]
  /\ bound = [i \in Inst |-> FALSE]
  /\ frame = [i \in Inst |-> Idle]
  /\ disk = [p \in Files |-> IF p = ArchivePath THEN [there |-> TRUE, bytes |-> HandleFile]
                              ELSE [there |-> FALSE, bytes |-> <<>>]]
  /\ ret = [i |-> "", op |-> "", arg |-> None, exc |-> "", val |-> None]
  /\ hist = [i \in Inst |-> NoHist]
  /\ damaged = FALSE

\* ArchiveFile(path, mode), twice
HandleNew(path, mode) ==
  /\ \E a \in {ArchiveFile_init(path, mode, disk)} :
       /\ self' = [i \in Inst |-> [self[i] EXCEPT !.lib = IF a.exc = "ok" THEN a.lib
                                                          ELSE NoLib]]
       /\ disk' = a.disk
       /\ Return("r", "ArchiveFile", PyStr(path), a.exc, None)
  /\ UNCHANGED <<bound, frame, hist, damaged>>

\* lib.read(arg), lib.seek(arg), lib.tell(); the second handle gets the
\* call too unless the first was closed and refused it
HandleCall(name, arg) ==
  /\ self["r"].lib.has
  /\ \E x \in {ArchiveFile_getattr(self["r"].lib, disk[self["r"].lib.path].bytes,
                                     name, arg)} :
       /\ self' = [self EXCEPT
            !["r"].lib = x.lib,
            !["w"].lib = IF x.exc = "AssertionError" THEN @
                         ELSE ArchiveFile_getattr(@, disk[@.path].bytes, name, arg).lib]
       /\ Return("r", name, PyInt(arg), x.exc, x.val)
  /\ UNCHANGED <<bound, frame, disk, hist, damaged>>

\* lib.__enter__()
HandleEnter ==
  /\ self["r"].lib.has
  /\ \E a \in {ArchiveFile_enter(self["r"].lib, disk)} :
       /\ self' = [self EXCEPT !["r"].lib = a.lib]
       /\ disk' = a.disk
       /\ Return("r", "__enter__", None, a.exc, None)
  /\ UNCHANGED <<bound, frame, hist, damaged>>

\* lib.__exit__(...), after the body of the scope returned or raised
HandleExit ==
  /\ self["r"].lib.has
  /\ \E x \in {ArchiveFile_exit(self["r"].lib)} :
       /\ self' = [self EXCEPT !["r"].lib = x.lib]
       /\ Return("r", "__exit__", None, x.exc, None)
  /\ UNCHANGED <<bound, frame, disk, hist, damaged>>

\* lib.close()
HandleClose ==
  /\ self["r"].lib.has
  /\ self' = [self EXCEPT !["r"].lib = ArchiveFile_close(@)]
  /\ Return("r", "close", None, "ok", None)
  /\ UNCHANGED <<bound, frame, disk, hist, damaged>>

NextHandle ==
  \/ \E p \in Paths, m \in {"rb", "wb"} : HandleNew(p, m)
  \/ \E n \in 1..MaxRead : HandleCall("read", n)
  \/ \E k \in 0..(Len(HandleFile) + 1) : HandleCall("seek", k)
  \/ HandleCall("tell", 0)
  \/ HandleEnter
  \/ HandleExit
  \/ HandleClose

SpecHandle == InitHandle /\ [][NextHandle]_vars

(***************************************************************************)
(* The properties.                                                         *)
(***************************************************************************)
\* the keys of instance i's TOC, as names
TocNames(i) == IF self[i].toc.t = "dict" THEN {k.v : k \in DOMAIN self[i].toc.v} ELSE {}

\* C2: extract of a name that is not a key of the container's TOC (a dict,
\* loaded or being built) returns None without raising, and leaves the
\* object, its file handle and cursor, and the files as they were
C2_UnknownNameIsAbsent ==
  [][\A i \in Inst, n \in Names :
       (self[i].toc.t = "dict" /\ n \notin TocNames(i) /\ ret'.op = "extract"
          /\ Extract(i, n))
       => /\ ret'.exc = "ok" /\ ret'.val = None
          /\ self' = self /\ disk' = disk]_vars

\* C2: a reader holding a TOC with an entry has returned None for another name
C2_Witness ==
  /\ ret.op = "extract" /\ ret.i \in Readers
  /\ ret.exc = "ok" /\ ret.val = None
  /\ TocNames(ret.i) # {} /\ ret.arg.v \notin TocNames(ret.i)
  /\ ~self[ret.i].lib.fd

\* build on instance w was the last call to return, and it succeeded
JustBuilt(w) == ret.op = "build" /\ ret.exc = "ok" /\ ret.i = w

\* the names instance w has added, and the last entry it added under a name
AddedNames(w) == {hist[w].added[k][1] : k \in DOMAIN hist[w].added}

\* the index of the last add under name n
LastIndexOf(added, n) ==
  CHOOSE k \in DOMAIN added :
    added[k][1] = n /\ \A j \in DOMAIN added : added[j][1] = n => j <= k

LastAdded(w, n) == hist[w].added[LastIndexOf(hist[w].added, n)]

\* (isPackage, payload) as the caller gave them for entry e to builder o
Original(o, e) ==
  PyTuple(<<PyBool(e[2] = PthInit),
            IF o.cls = "ZlibArchive" THEN o.code_dict.v[PyStr(e[1])] ELSE SrcObj(e[2])>>)

\* a new container of builder o's class on the file o wrote, with o's
\* start and cipher
Reopen(o, d) ==
  IF o.cls = "ZlibArchive" THEN ZlibArchive_init(o.path, o.start, EmptyDict, o.cipher, d)
  ELSE Archive_init("Archive", o.path, o.start, NoObject, d)

\* extract(n) on the container r that a constructor returned
ExtractFrom(r, n) ==
  IF r.exc # "ok" THEN Result(r.exc, None, r.o, r.disk) ELSE extract(r.o, n, r.disk)

\* C1: once build has returned, a new container constructed from the
\* written file returns, for every name that was added, the isPackage flag
\* and the payload that were last given for it
C1_RoundTrip ==
  \A w \in Writers :
    JustBuilt(w) =>
      \A n \in AddedNames(w) :
        With(ExtractFrom(Reopen(self[w], disk), n), LAMBDA x :
          x.exc = "ok" /\ x.val = Original(self[w], LastAdded(w, n)))

\* C3: once build has returned, the big-endian integer at offset 8 from the
\* archive start is the distance from the archive start to the first byte
\* of the serialized TOC, and loadtoc reads the TOC that save_toc wrote
C3_HeaderOffset ==
  \A w \in Writers :
    JustBuilt(w) =>
      With(disk[self[w].path.v].bytes, LAMBDA f :
        With(UnpackI(ReadAt(f, self[w].start + TOCPOS, 4)), LAMBDA u :
          /\ u.exc = "ok"
          /\ self[w].start + u.val >= 0
          /\ ReadAll(f, self[w].start + u.val) = MarshalDumps(self[w].toc)
          /\ With(loadtoc(self[w], f), LAMBDA t :
               t.exc = "ok" /\ t.o.toc = self[w].toc)))

\* the bytes ZlibArchive.add is to store for name k of builder o
Stored(o, k) ==
  IF o.cipher # "None" THEN CipherEncrypt(ZlibCompress(MarshalDumps(o.code_dict.v[k])))
  ELSE ZlibCompress(MarshalDumps(o.code_dict.v[k]))

\* C4: while a compressed container is being built and when build has
\* returned, the bytes at each TOC entry's offset are the compressed payload,
\* encrypted after compression when a cipher is configured, and the entry's
\* stored length is their length; after build the header's flag byte is 0
\* for cipher=None and 1 otherwise
C4_CompressThenEncrypt ==
  \A w \in Writers :
    (self[w].cls = "ZlibArchive" /\ (hist[w].phase = "building" \/ JustBuilt(w))) =>
      With(disk[self[w].path.v].bytes, LAMBDA f :
        /\ \A k \in DOMAIN self[w].toc.v :
             With(self[w].toc.v[k].v, LAMBDA e :
               /\ e[3].v = Len(Stored(self[w], k))
               /\ SubSeq(f, self[w].start + e[2].v + 1, self[w].start + e[2].v + e[3].v)
                    = Stored(self[w], k))
        /\ JustBuilt(w) =>
             f[self[w].start + Archive_HDRLEN + 1]
               = IF self[w].cipher = "None" THEN 0 ELSE 1)

\* C4: a compressed container with a cipher has been built with two entries
C4_Witness ==
  \E w \in Writers :
    /\ JustBuilt(w) /\ self[w].cls = "ZlibArchive" /\ self[w].cipher # "None"
    /\ Cardinality(DOMAIN self[w].toc.v) = 2

\* the constructor of reader i on path p at start s has failed on the magic:
\* the format error, no object bound, no TOC, the handle closed with the
\* cursor behind the bytes read for the magic
Refused(i, p, s) ==
  /\ ret'.exc = "ArchiveReadError"
  /\ ~bound'[i]
  /\ self'[i].toc = None
  /\ self'[i].lib.has /\ ~self'[i].lib.fd
  /\ self'[i].lib.pos = s + Len(ReadAt(disk[p].bytes, s, 4))
  /\ disk' = disk

\* C5: a constructor given a file whose four bytes at the archive start are
\* not the class's magic raises ArchiveReadError, loads no TOC (the cursor
\* stops behind the magic), leaves toc unset and closes the handle
C5_MagicValidation ==
  [][\A i \in Readers, p \in Paths, s \in Starts :
       (/\ disk[p].there /\ ret'.op = "__init__" /\ ret'.i = i
        /\ self'[i].path = PyStr(p) /\ self'[i].start = s
        /\ frame' = frame) =>
         /\ (/\ self'[i].cls = "Archive"
             /\ ReadAt(disk[p].bytes, s, 4) # Archive_MAGIC
             /\ ArchiveInit(i, PyStr(p), s))
            => Refused(i, p, s)
         /\ (/\ self'[i].cls = "ZlibArchive"
             /\ ReadAt(disk[p].bytes, s, 4) # ZlibArchive_MAGIC
             /\ \E x \in Ciphers : ZlibArchiveInit(i, PyStr(p), s, EmptyDict, x))
            => Refused(i, p, s)]_vars

\* C5: a constructor has refused a finished archive of the other class
C5_Witness ==
  /\ ret.op = "__init__" /\ ret.exc = "ArchiveReadError" /\ ret.i \in Readers
  /\ \E w \in Writers :
       /\ hist[w].phase = "finalized" /\ self[w].start = 0
       /\ self[w].cls # self[ret.i].cls
       /\ self[ret.i].path = self[w].path /\ self[ret.i].start = 0
       /\ ReadAt(disk[self[w].path.v].bytes, 0, 4) = MAGIC(self[w].cls)
  /\ ~self[ret.i].lib.fd /\ self[ret.i].lib.pos = 4

\* C6: build on an instance that has a path (opened from a file, or built
\* before) raises at the assertion with the instance and the files as they
\* were; and no step turns an instance with a read handle into one with a
\* write handle or the reverse
C6_ReadOnlyOrWriteOnly ==
  [][\A i \in Inst :
       /\ (/\ self[i].path # None /\ bound[i] /\ frame[i].pc = "idle"
           /\ (ret' = ret /\ self'[i] # self[i]) \/ (ret'.op = "build" /\ ret'.i = i)
           /\ \E t \in LogicalTocs : Build(i, ArchivePath, t))
          => /\ ret'.exc = "AssertionError"
             /\ self' = self /\ disk' = disk /\ frame' = frame
       /\ (self[i].lib.has /\ self'[i].lib.has) => self'[i].lib.mode = self[i].lib.mode
       /\ (self[i].lib.has /\ self[i].lib.mode = "wb") => self'[i].lib.has]_vars

\* C6: build has been refused on a reader whose file holds an archive
C6_Witness ==
  /\ ret.op = "build" /\ ret.exc = "AssertionError" /\ ret.i \in Readers
  /\ hist[ret.i].phase = "read" /\ self[ret.i].lib.mode = "rb"
  /\ self[ret.i].toc.t = "dict"
  /\ disk[ArchivePath].bytes # <<>>

\* build on instance w has started and update_headers has not finished
InProgress(w) == frame[w].pc \in {"add", "hdr"}

\* the new container read the TOC that builder w will have in the end
LoadedFinalToc(r, w) ==
  r.exc = "ok" /\ frame[w].todo = <<>> /\ r.o.toc = self[w].toc

StoredFor(o, e) ==
  IF o.cls = "ZlibArchive" THEN Stored(o, PyStr(e[1])) ELSE Drop(PycFile(e[2]), 8)

\* the file position at which the k-th add of builder o appended
RECURSIVE AddOffset(_, _, _)
AddOffset(o, added, k) ==
  IF k = 1 THEN HDRLEN(o.cls)
  ELSE AddOffset(o, added, k - 1) + Len(StoredFor(o, added[k - 1]))

\* the TOC entry add records for the k-th add of builder o
TocEntry(o, added, k) ==
  IF o.cls = "ZlibArchive"
  THEN PyTuple(<<PyBool(added[k][2] = PthInit), PyInt(AddOffset(o, added, k)),
                 PyInt(Len(StoredFor(o, added[k])))>>)
  ELSE PyTuple(<<PyBool(added[k][2] = PthInit), PyInt(AddOffset(o, added, k))>>)

\* C8: during a build and when it has returned, the TOC has one entry for
\* each name added, recording the offset (and stored length) of the last add
\* under that name; the bytes of every add, also of earlier adds under the
\* same name, are in the file where they were appended; and after build a
\* new container on the file returns for each name the payload last added
C8_LastWriteWins ==
  \A w \in Writers :
    (hist[w].phase = "building" \/ JustBuilt(w)) =>
      With(hist[w].added, LAMBDA added :
        /\ DOMAIN self[w].toc.v = {PyStr(n) : n \in AddedNames(w)}
        /\ \A n \in AddedNames(w) :
             self[w].toc.v[PyStr(n)] = TocEntry(self[w], added, LastIndexOf(added, n))
        /\ \A k \in DOMAIN added :
             SubSeq(disk[self[w].path.v].bytes, AddOffset(self[w], added, k) + 1,
                    AddOffset(self[w], added, k) + Len(StoredFor(self[w], added[k])))
               = StoredFor(self[w], added[k])
        /\ JustBuilt(w) =>
             \A n \in AddedNames(w) :
               With(ExtractFrom(Reopen(self[w], disk), n), LAMBDA x :
                 x.exc = "ok" /\ x.val = Original(self[w], added[LastIndexOf(added, n)])))

\* the source file of entry e is no precompiled unit (.pyc or .pyo)
Rejected(e) == e[2] \notin {PthInit, PthMod}

\* the first HDRLEN bytes of the file of builder i, as far as it has them,
\* are the zeros of the placeholder
PlaceholderUntouched(i, d) ==
  \A k \in 1..Min(HDRLEN(self[i].cls), Len(d[self[i].path.v].bytes)) :
    d[self[i].path.v].bytes[k] = 0

\* C10: add of the base container, given a source file with another
\* extension than .pyc or .pyo, raises with the TOC, the cursor and the
\* files unchanged; inside build the exception ends build, and from then on
\* no entry of the list is added, no TOC is written and the placeholder is
\* not rewritten
C10_RejectedEntryAborts ==
  [][\A i \in Inst :
       self[i].cls = "Archive" =>
         /\ \A e \in Entries :
              (Rejected(e) /\ ret'.op = "add" /\ ret'.i = i /\ Add(i, e))
              => /\ ret'.exc = "AssertionError"
                 /\ self' = self /\ disk' = disk
         /\ (/\ frame[i].pc = "add" /\ frame[i].todo # <<>>
             /\ Rejected(Head(frame[i].todo))
             /\ BuildAdd(i))
            => /\ ret'.op = "build" /\ ret'.exc = "AssertionError"
               /\ self' = self /\ disk' = disk
               /\ frame'[i] = Idle
         /\ hist[i].phase = "aborted"
            => /\ frame'[i] = Idle
               /\ hist'[i].phase = "aborted"
               /\ PlaceholderUntouched(i, disk')]_vars

\* C10: build has been ended by the rejected second entry of its list, the
\* first entry being in the TOC and in the file behind the placeholder
C10_Witness ==
  /\ ret.op = "build" /\ ret.exc = "AssertionError" /\ ret.i \in Writers
  /\ self[ret.i].cls = "Archive" /\ hist[ret.i].phase = "aborted"
  /\ Len(hist[ret.i].added) = 1
  /\ Cardinality(DOMAIN self[ret.i].toc.v) = 1
  /\ Len(disk[self[ret.i].path.v].bytes)
       = Archive_HDRLEN + Len(StoredFor(self[ret.i], hist[ret.i].added[1]))
  /\ PlaceholderUntouched(ret.i, disk)

\* the bytes reader o finds for the TOC entry e = (ispkg, pos, lngth), after
\* decryption if o decrypts
EntryBytes(o, d, e) ==
  With(ReadAt(d[o.lib.path].bytes, o.start + e[2].v, e[3].v), LAMBDA b :
    IF o.crypted # 0 THEN CipherDecrypt(b) ELSE b)

\* the stored bytes of name k of reader o decompress and deserialize
Intact(o, d, k) == LoadsDecompress(EntryBytes(o, d, o.toc.v[k].v)).exc = "ok"

\* reader o holds the TOC of the archive in its file and decrypts as the
\* header's flag says
ReadsAsWritten(o, d) ==
  /\ o.cls = "ZlibArchive" /\ o.lib.has /\ o.toc.t = "dict"
  /\ Len(d[o.lib.path].bytes) > o.start + Archive_HDRLEN
  /\ d[o.lib.path].bytes[o.start + Archive_HDRLEN + 1] = o.crypted

\* C9: extract of a name whose stored bytes do not decompress or do not
\* deserialize raises ImportError, the handle is closed afterwards, and
\* extract of any other name whose bytes are intact still returns its payload
C9_CorruptEntryFailsAlone ==
  [][\A r \in Readers, n \in Names :
       (/\ ReadsAsWritten(self[r], disk)
        /\ PyStr(n) \in DOMAIN self[r].toc.v
        /\ ~Intact(self[r], disk, PyStr(n))
        /\ ret'.op = "extract" /\ Extract(r, n))
       => /\ ret'.exc = "ImportError"
          /\ ~self'[r].lib.fd
          /\ self'[r].toc = self[r].toc
          /\ \A k \in DOMAIN self[r].toc.v :
               Intact(self[r], disk, k) => extract(self'[r], k.v, disk').exc = "ok"]_vars

\* position k of p holds a '?' and what follows it is an integer
IntegerAfter(p, k) == p[k] = Ord["?"] /\ IntOfText(Drop(p, k)).exc = "ok"

\* C11: a ZlibArchive constructed from a path without an offset (only that
\* constructor is given a path with a '?' in it) has, for a
\* path ending in '?' and an integer, that integer as its start and the path
\* in front of the '?' as its path, which is the file it opens; for a path
\* with no '?' followed by an integer it has start 0 and the path as given,
\* and the constructor goes on to open that file (IOError if there is none)
C11_PathSuffix ==
  [][\A i \in Readers, p \in SuffixPaths :
       (/\ ret'.op = "__init__" /\ ret'.arg = PyStr(p) /\ ret'.i = i
        /\ \/ \E k \in 1..Len(p) : p[k] = Ord["?"]
           \/ frame' = frame /\ disk' = disk /\ ZlibArchiveOpen(i, p, EmptyDict, "None"))
       => /\ \A k \in 1..Len(p) :
               IntegerAfter(p, k) =>
                 /\ self'[i].start = IntOfText(Drop(p, k)).val
                 /\ self'[i].path = PyStr(SubSeq(p, 1, k - 1))
          /\ (\A k \in 1..Len(p) : ~IntegerAfter(p, k)) =>
                 /\ self'[i].start = 0
                 /\ self'[i].path = PyStr(p)
                 /\ ~disk[p].there => ret'.exc = "IOError"
          /\ self'[i].lib.has => self'[i].lib.path = self'[i].path.v
          /\ ~self'[i].lib.has => ret'.exc = "IOError"]_vars

\* C11: a reader given the executable's path with '?' and the offset of the
\* embedded archive has loaded that archive's TOC
C11_Witness ==
  /\ ret.op = "__init__" /\ ret.exc = "ok" /\ ret.i \in Readers
  /\ ret.arg = PyStr(ExePath \o Str(<<"?">>) \o <<Ord["0"] + PadLen>>)
  /\ self[ret.i].path = PyStr(ExePath) /\ self[ret.i].start = PadLen
  /\ TocNames(ret.i) # {}

\* C12: on a handle in read mode that is closed, entered, left and reopened
\* between its reads and seeks, the cursor (the open file's, or the recorded
\* pos while closed) is where the cursor of the never closed handle is,
\* every read that is made on the open handle returns the bytes the never
\* closed handle is about to read, __enter__ on an open handle and close on
\* a closed handle change nothing
C12_CursorPreserved ==
  [][/\ (self'["r"].lib.has /\ self'["r"].lib.mode = "rb") =>
          (IF self'["r"].lib.fd THEN self'["r"].lib.cur ELSE self'["r"].lib.pos)
            = self'["w"].lib.cur
     /\ \A n \in 1..MaxRead :
          (ret'.op = "read" /\ ret'.exc = "ok" /\ HandleCall("read", n)) =>
            ret'.val = PyBytes(ReadAt(disk[self["w"].lib.path].bytes, self["w"].lib.cur, n))
     /\ (ret'.op = "__enter__" /\ self["r"].lib.fd /\ HandleEnter) =>
          (self' = self /\ disk' = disk /\ ret'.exc = "ok")
     /\ (ret'.op = "close" /\ ~self["r"].lib.fd /\ HandleClose) => self' = self
    ]_vars

\* C12: a read returned bytes from the middle of the file right after the
\* handle had been closed there and opened again
C12_Witness ==
  /\ ret.op = "read" /\ ret.exc = "ok" /\ ret.val.v # <<>>
  /\ self["r"].lib.fd /\ self["r"].lib.pos > 0
  /\ self["r"].lib.cur = self["r"].lib.pos + Len(ret.val.v)

\* C18: the constructor of the handle returns a handle that is not open,
\* without having opened the file (no file is created, emptied or found
\* missing by it); the handle is open after __enter__; read, seek and tell on
\* a closed handle raise AssertionError and leave it closed
C18_DeferredOpen ==
  [][/\ \A p \in Paths, m \in {"rb", "wb"} :
          (ret'.op = "ArchiveFile" /\ HandleNew(p, m)) =>
            /\ ret'.exc = "ok" /\ disk' = disk
            /\ self'["r"].lib.has /\ ~self'["r"].lib.fd
     /\ (ret'.op = "__enter__" /\ ret'.exc = "ok" /\ HandleEnter) => self'["r"].lib.fd
     /\ (ret'.op \in {"read", "seek", "tell"} /\ self["r"].lib.has /\ ~self["r"].lib.fd
           /\ self'["w"] = self["w"]) =>
          (ret'.exc = "AssertionError" /\ self' = self /\ disk' = disk)
    ]_vars

\* C13: when the constructor of a ZlibArchive has returned a container for
\* an archive file, the container's crypted equals the flag byte at offset
\* 12 from the archive's start, whatever the cipher argument was, and
\* extract returns for every name what it returns with crypted set to that
\* byte
C13_FlagFromHeader ==
  [][\A i \in Readers :
       (/\ ret'.op = "__init__" /\ ret'.i = i /\ ret'.exc = "ok"
        /\ self'[i].cls = "ZlibArchive" /\ frame' = frame /\ disk' = disk)
       => With(ReadAt(disk[self'[i].path.v].bytes,
                      self'[i].start + Archive_HDRLEN, 1)[1], LAMBDA flag :
            /\ self'[i].crypted = flag
            /\ \A n \in Names :
                 With(extract(self'[i], n, disk), LAMBDA x :
                   With(extract([self'[i] EXCEPT !.crypted = flag], n, disk), LAMBDA y :
                     x.exc = y.exc /\ x.val = y.val)))]_vars

\* C14: every add that succeeds on a builder, inside build or called by
\* hand, records as the entry's offset the write cursor it found, which is
\* the end of the file as written so far (the end of the reserved header
\* for the first add, the end of the previous payload for a later one), and
\* appends the payload there; _finalize takes as the TOC's position the end
\* of the last payload and appends the serialized TOC there
C14_Consecutive ==
  [][\A i \in Writers :
       /\ \A e \in Entries :
            (hist'[i].added = Append(hist[i].added, e)) =>
              With(disk[self[i].path.v].bytes, LAMBDA f :
                /\ self'[i].toc.v[PyStr(e[1])].v[2] = PyInt(self[i].lib.cur)
                /\ self[i].lib.cur = Len(f)
                /\ hist[i].added = <<>> => Len(f) = HDRLEN(self[i].cls)
                /\ disk'[self[i].path.v].bytes = f \o StoredFor(self[i], e))
       /\ (frame[i].pc = "add" /\ frame'[i].pc \in {"hdr", "close"}) =>
            With(disk[self[i].path.v].bytes, LAMBDA f :
              /\ frame'[i].toc_pos = Len(f)
              /\ disk'[self[i].path.v].bytes = f \o MarshalDumps(self[i].toc))]_vars

\* C14: a build that added two entries has appended the TOC behind them
C14_Witness ==
  \E i \in Writers :
    /\ hist[i].phase = "building" /\ Len(hist[i].added) = 2 /\ frame[i].pc = "hdr"
    /\ frame[i].toc_pos = HDRLEN(self[i].cls) + Len(StoredFor(self[i], hist[i].added[1]))
                            + Len(StoredFor(self[i], hist[i].added[2]))

\* C16: every write of update_headers ends inside the placeholder that
\* _start_add_entries reserved and leaves the bytes behind the placeholder
\* (payloads and TOC) as they were, and when the header is written every
\* offset recorded in the TOC is at or behind the end of the written header
C16_HeaderInPlaceholder ==
  [][\A i \in Writers :
       (frame[i].pc = "hdr" /\ frame'[i].k = frame[i].k + 1) =>
         /\ self'[i].lib.cur <= HDRLEN(self[i].cls)
         /\ Drop(disk'[self[i].path.v].bytes, HDRLEN(self[i].cls))
              = Drop(disk[self[i].path.v].bytes, HDRLEN(self[i].cls))
         /\ frame'[i].pc = "close" =>
              \A n \in DOMAIN self[i].toc.v :
                self[i].toc.v[n].v[2].v >= self'[i].lib.cur]_vars

\* C17: once build has returned on an instance, no step changes the file
\* it wrote, the instance stays finalized and no add succeeds on it
C17_FinalizedIsTerminal ==
  [][\A i \in Writers :
       hist[i].phase = "finalized" =>
         /\ hist'[i] = hist[i]
         /\ disk'[self[i].path.v] = disk[self[i].path.v]]_vars

\* C15: when a constructor or an extract call has returned or raised, the
\* container's file handle, if it has one, is closed
C15_ReleasedAfterCall ==
  [][\A i \in Inst :
       (/\ ret'.i = i /\ ret'.op \in {"__init__", "extract"} /\ frame' = frame
        /\ ret' # ret \/ self'[i] # self[i])
       => ~self'[i].lib.fd]_vars

=============================================================================
